---- MODULE Spec2Model ----
(***************************************************************************)
(* Model of conf/allowedips_exclude.go: the WSTUNNEL_HOST exclusion pass   *)
(* that subtracts the excluded prefixes from every peer's AllowedIPs.      *)
(*                                                                         *)
(* A netip.Prefix is a record [fam, addr, bits]; addr is the value of the  *)
(* address read as a big-endian unsigned integer.  The address widths of   *)
(* the two families (32 and 128 bits in the program) are scaled down to    *)
(* Width4 and Width6 bits.                                                 *)
(***************************************************************************)
EXTENDS Integers, Sequences, FiniteSets, TLC

\* ------------------------------------------------------------------ bounds
Width4 == 1        \* scaled address width of the 4-byte family
Width6 == 2        \* scaled address width of the 16-byte family
MaxRemoves == 2    \* longest list of exclusions folded over one base
MaxOperands == 3   \* most prefixes in a list of bases and its exclusions together
MaxPeers == 1      \* most peers of a configuration
MaxTokens == 2     \* most comma-separated tokens of WSTUNNEL_HOST

Families == {4, 6}

Pow2(n) == 2 ^ n

Min(a, b) == IF a <= b THEN a ELSE b

Range(s) == {s[i] : i \in DOMAIN s}

SeqsUpTo(S, n) == UNION { [1 .. k -> S] : k \in 0 .. n }

\* ------------------------------------------------------- net/netip values
\* netip.Addr.Is4
Is4(x) == x.fam = 4

\* netip.Addr.BitLen
BitLen(x) == IF Is4(x) THEN Width4 ELSE Width6

\* netip.Prefix.Addr
Addr(p) == [fam |-> p.fam, a |-> p.addr]

\* netip.PrefixFrom
PrefixFrom(ip, b) == [fam |-> ip.fam, addr |-> ip.a, bits |-> b]

\* the n most significant bits of the address value v of the family of x
HighBits(x, v, n) == v \div Pow2(BitLen(x) - n)

\* netip.Prefix.Masked: clears the address bits beyond the prefix length
Masked(p) == [p EXCEPT !.addr = HighBits(p, p.addr, p.bits) * Pow2(BitLen(p) - p.bits)]

\* netip.Prefix.Overlaps
Overlaps(p, o) ==
    IF p = o THEN TRUE
    ELSE IF Is4(p) # Is4(o) THEN FALSE
    ELSE LET minBits == Min(p.bits, o.bits)
         IN  minBits = 0 \/ HighBits(p, p.addr, minBits) = HighBits(o, o.addr, minBits)

\* netip.Prefix.Contains
Contains(p, ip) ==
    /\ ip.fam = p.fam
    /\ HighBits(p, ip.a, p.bits) = HighBits(p, p.addr, p.bits)

\* v | bit, for a value bit that has a single bit set
OrBit(v, bit) == IF (v \div bit) % 2 = 1 THEN v ELSE v + bit

\* ------------------------------------------------------------ input sets
AddrValues(fam) == 0 .. Pow2(IF fam = 4 THEN Width4 ELSE Width6) - 1

Addrs(fam) == { [fam |-> fam, a |-> v] : v \in AddrValues(fam) }

\* every prefix value of a family, canonical or not
AllPrefixes(fam) ==
    { [fam |-> fam, addr |-> v, bits |-> b] :
        v \in AddrValues(fam), b \in 0 .. (IF fam = 4 THEN Width4 ELSE Width6) }

\* the prefixes in canonical (masked) form
CanonicalPrefixes(fam) == { p \in AllPrefixes(fam) : Masked(p) = p }

\* the set of addresses of a prefix
Addresses(p) ==
    { [fam |-> p.fam, a |-> v] :
        v \in { w \in AddrValues(p.fam) : HighBits(p, w, p.bits) = HighBits(p, p.addr, p.bits) } }

AddressesOfList(ps) == UNION { Addresses(ps[i]) : i \in DOMAIN ps }

\* remove lies strictly inside base
StrictlyInside(remove, base) ==
    /\ remove.fam = base.fam
    /\ remove.bits > base.bits
    /\ Contains(base, Addr(remove))

\* no two entries of the list overlap
PairwiseDisjoint(ps) ==
    \A i, j \in DOMAIN ps : i # j => ~Overlaps(ps[i], ps[j])

\* p and q are the two halves of one split
Siblings(p, q) ==
    /\ p.fam = q.fam
    /\ p.bits = q.bits
    /\ p.bits > 0
    /\ p # q
    /\ HighBits(p, p.addr, p.bits - 1) = HighBits(q, q.addr, q.bits - 1)

NoPrefix == [fam |-> 4, addr |-> 0, bits |-> 0]

\* ------------------------------------------------------------ the program
maxPrefixBits(p) == IF Is4(p) THEN Width4 ELSE Width6

\* addr[bit/8] |= 1 << (7 - bit%8): sets bit number `bit`, counted from the
\* most significant bit, of the big-endian byte array
setBit128(addr, bit) == OrBit(addr, Pow2(Width6 - 1 - bit))

\* right := v, the bit of the right half is not set
splitPrefix_NoBit(p) ==
    << PrefixFrom(Addr(p), p.bits + 1), PrefixFrom(Addr(p), p.bits + 1) >>

splitPrefix(p) ==
    LET bits == p.bits IN
    IF Is4(p)
    THEN LET v     == p.addr
             bit   == Pow2(Width4 - 1 - bits)
             right == OrBit(v, bit)
         IN  << PrefixFrom(Addr(p), bits + 1),
                PrefixFrom([fam |-> 4, a |-> right], bits + 1) >>
    ELSE LET addr == setBit128(p.addr, bits)
         IN  << PrefixFrom(Addr(p), bits + 1),
                PrefixFrom([fam |-> 6, a |-> addr], bits + 1) >>

\* return subtractPrefix(left, remove), the right half is not appended
RECURSIVE subtractPrefixRun_DropRight(_, _)
subtractPrefixRun_DropRight(base0, remove0) ==
    LET base   == Masked(base0)
        remove == Masked(remove0)
    IN  IF ~Overlaps(base, remove) THEN [out |-> << base >>, splits |-> 0]
        ELSE IF Contains(remove, Addr(base)) /\ remove.bits <= base.bits
             THEN [out |-> << >>, splits |-> 0]
        ELSE IF base.bits >= maxPrefixBits(base) THEN [out |-> << base >>, splits |-> 0]
        ELSE LET lr == splitPrefix(base)
             IN  IF Overlaps(remove, lr[1])
                 THEN LET sub == subtractPrefixRun_DropRight(lr[1], remove)
                      IN  [out |-> sub.out, splits |-> 1 + sub.splits]
                 ELSE LET sub == subtractPrefixRun_DropRight(lr[2], remove)
                      IN  [out |-> << lr[1] >> \o sub.out, splits |-> 1 + sub.splits]

\* remove.Bits() < base.Bits() in place of <=
RECURSIVE subtractPrefixRun_Less(_, _)
subtractPrefixRun_Less(base0, remove0) ==
    LET base   == Masked(base0)
        remove == Masked(remove0)
    IN  IF ~Overlaps(base, remove) THEN [out |-> << base >>, splits |-> 0]
        ELSE IF Contains(remove, Addr(base)) /\ remove.bits < base.bits
             THEN [out |-> << >>, splits |-> 0]
        ELSE IF base.bits >= maxPrefixBits(base) THEN [out |-> << base >>, splits |-> 0]
        ELSE LET lr == splitPrefix(base)
             IN  IF Overlaps(remove, lr[1])
                 THEN LET sub == subtractPrefixRun_Less(lr[1], remove)
                      IN  [out |-> Append(sub.out, lr[2]), splits |-> 1 + sub.splits]
                 ELSE LET sub == subtractPrefixRun_Less(lr[2], remove)
                      IN  [out |-> << lr[1] >> \o sub.out, splits |-> 1 + sub.splits]

\* the early return for a base that does not overlap remove is missing
RECURSIVE subtractPrefixRun_NoEarlyReturn(_, _)
subtractPrefixRun_NoEarlyReturn(base0, remove0) ==
    LET base   == Masked(base0)
        remove == Masked(remove0)
    IN  IF Contains(remove, Addr(base)) /\ remove.bits <= base.bits
        THEN [out |-> << >>, splits |-> 0]
        ELSE IF base.bits >= maxPrefixBits(base) THEN [out |-> << base >>, splits |-> 0]
        ELSE LET lr == splitPrefix(base)
             IN  IF Overlaps(remove, lr[1])
                 THEN LET sub == subtractPrefixRun_NoEarlyReturn(lr[1], remove)
                      IN  [out |-> Append(sub.out, lr[2]), splits |-> 1 + sub.splits]
                 ELSE LET sub == subtractPrefixRun_NoEarlyReturn(lr[2], remove)
                      IN  [out |-> << lr[1] >> \o sub.out, splits |-> 1 + sub.splits]

\* one run of subtractPrefix(base0, remove0): the slice it returns and the
\* number of calls of splitPrefix made over the whole recursion
RECURSIVE subtractPrefixRun(_, _)
subtractPrefixRun(base0, remove0) ==
    LET base   == Masked(base0)
        remove == Masked(remove0)
    IN  IF ~Overlaps(base, remove) THEN [out |-> << base >>, splits |-> 0]
        ELSE IF Contains(remove, Addr(base)) /\ remove.bits <= base.bits
             THEN [out |-> << >>, splits |-> 0]
        ELSE IF base.bits >= maxPrefixBits(base) THEN [out |-> << base >>, splits |-> 0]
        ELSE LET lr    == splitPrefix(base)
                 left  == lr[1]
                 right == lr[2]
             IN  IF Overlaps(remove, left)
                 THEN LET sub == subtractPrefixRun(left, remove)
                      IN  [out |-> Append(sub.out, right), splits |-> 1 + sub.splits]
                 ELSE LET sub == subtractPrefixRun(right, remove)
                      IN  [out |-> << left >> \o sub.out, splits |-> 1 + sub.splits]

subtractPrefix(base0, remove0) == subtractPrefixRun(base0, remove0).out

\* newFragments of one pass of the loop over fragments, for the exclusion r
RECURSIVE newFragments(_, _)
newFragments(fragments, r) ==
    IF fragments = << >> THEN << >>
    ELSE subtractPrefix(Head(fragments), Masked(r)) \o newFragments(Tail(fragments), r)

\* the family test sits inside the loop over fragments, so that an exclusion
\* of the other family leaves newFragments empty
RECURSIVE foldFragments_FamilyInside(_, _, _)
foldFragments_FamilyInside(b, fragments, remove) ==
    IF remove = << >> THEN fragments
    ELSE LET r == Head(remove) IN
         IF Is4(b) # Is4(r)
         THEN foldFragments_FamilyInside(b, << >>, Tail(remove))
         ELSE foldFragments_FamilyInside(b, newFragments(fragments, r), Tail(remove))

\* the loop over fragments stops after the first fragment
RECURSIVE foldFragments_FirstOnly(_, _, _)
foldFragments_FirstOnly(b, fragments, remove) ==
    IF remove = << >> THEN fragments
    ELSE LET r == Head(remove) IN
         IF Is4(b) # Is4(r) \/ fragments = << >>
         THEN foldFragments_FirstOnly(b, fragments, Tail(remove))
         ELSE foldFragments_FirstOnly(b,
                  subtractPrefix(Head(fragments), Masked(r)) \o Tail(fragments),
                  Tail(remove))

\* the value of `fragments` after the loop over remove, for the base b
RECURSIVE foldFragments(_, _, _)
foldFragments(b, fragments, remove) ==
    IF remove = << >> THEN fragments
    ELSE LET r == Head(remove) IN
         IF Is4(b) # Is4(r)
         THEN foldFragments(b, fragments, Tail(remove))
         ELSE foldFragments(b, newFragments(fragments, r), Tail(remove))

RECURSIVE subtractPrefixList(_, _)
subtractPrefixList(base, remove) ==
    IF base = << >> THEN << >>
    ELSE foldFragments(Head(base), << Masked(Head(base)) >>, remove)
             \o subtractPrefixList(Tail(base), remove)

prefixFromAddr(addr) ==
    IF Is4(addr) THEN PrefixFrom(addr, Width4) ELSE PrefixFrom(addr, Width6)

\* ------------------------------------------------- the WSTUNNEL_HOST string
\* The string is modelled by the list strings.Split(s, ",") yields, each
\* entry classified by what the parsers make of it once trimmed:
\*   empty    the entry trims to the empty string
\*   cidr     contains "/" and netip.ParsePrefix accepts it
\*   badcidr  contains "/" and netip.ParsePrefix rejects it
\*   addr     netip.ParseAddr accepts it
\*   host     anything else, handed to resolveHostname
Tokens ==
    { [kind |-> "empty"], [kind |-> "badcidr"], [kind |-> "host"] }
        \cup { [kind |-> "cidr", prefix |-> p] : p \in CanonicalPrefixes(4) }
        \cup { [kind |-> "addr", ip |-> a] : a \in Addrs(4) }

\* what resolveHostname answers: an error, a string netip.ParseAddr rejects,
\* or the text of an address
NoAnswer == [kind |-> "none"]

Answers ==
    { [kind |-> "fail"], [kind |-> "text"] }
        \cup { [kind |-> "ip", ip |-> a] : a \in Addrs(4) }

\* the answers of the resolver, one for every host entry of s
RECURSIVE ResolverAnswers(_)
ResolverAnswers(s) ==
    IF s = << >> THEN { << >> }
    ELSE { << a >> \o rest :
             a \in (IF Head(s).kind = "host" THEN Answers ELSE {NoAnswer}),
             rest \in ResolverAnswers(Tail(s)) }

\* strings.TrimSpace(s) == ""
Blank(s) == s = << [kind |-> "empty"] >>

splitCommaList(s) ==
    IF \E i \in DOMAIN s : s[i].kind = "empty"
    THEN [err |-> TRUE, out |-> << >>]
    ELSE [err |-> FALSE, out |-> s]

\* a failed resolution skips the entry instead of returning the error
RECURSIVE parseParts_SkipFailed(_, _, _, _)
parseParts_SkipFailed(parts, answers, i, excludes) ==
    IF i > Len(parts) THEN [err |-> FALSE, excludes |-> excludes]
    ELSE LET part == parts[i] IN
         IF part.kind = "cidr"
         THEN parseParts_SkipFailed(parts, answers, i + 1, Append(excludes, Masked(part.prefix)))
         ELSE IF part.kind = "badcidr"
         THEN [err |-> TRUE, excludes |-> << >>]
         ELSE IF part.kind = "addr"
         THEN parseParts_SkipFailed(parts, answers, i + 1, Append(excludes, prefixFromAddr(part.ip)))
         ELSE IF answers[i].kind = "fail"
         THEN parseParts_SkipFailed(parts, answers, i + 1, excludes)
         ELSE IF answers[i].kind = "text"
         THEN [err |-> TRUE, excludes |-> << >>]
         ELSE parseParts_SkipFailed(parts, answers, i + 1, Append(excludes, prefixFromAddr(answers[i].ip)))

\* the loop over parts of parseWstunnelHostExcludes, from entry i on
RECURSIVE parseParts(_, _, _, _)
parseParts(parts, answers, i, excludes) ==
    IF i > Len(parts) THEN [err |-> FALSE, excludes |-> excludes]
    ELSE LET part == parts[i] IN
         IF part.kind = "cidr"
         THEN parseParts(parts, answers, i + 1, Append(excludes, Masked(part.prefix)))
         ELSE IF part.kind = "badcidr"
         THEN [err |-> TRUE, excludes |-> << >>]
         ELSE IF part.kind = "addr"
         THEN parseParts(parts, answers, i + 1, Append(excludes, prefixFromAddr(part.ip)))
         ELSE IF answers[i].kind = "fail"
         THEN [err |-> TRUE, excludes |-> << >>]
         ELSE IF answers[i].kind = "text"
         THEN [err |-> TRUE, excludes |-> << >>]
         ELSE parseParts(parts, answers, i + 1, Append(excludes, prefixFromAddr(answers[i].ip)))

parseWstunnelHostExcludes(s, answers) ==
    LET split == splitCommaList(s) IN
    IF split.err THEN [err |-> TRUE, excludes |-> << >>]
    ELSE parseParts(split.out, answers, 1, << >>)

\* the error returned and the peers left by config.ApplyWstunnelHostExclusions()
ApplyWstunnelHostExclusions(host, peers, answers) ==
    IF Blank(host) THEN [err |-> "nil", Peers |-> peers]
    ELSE LET parsed == parseWstunnelHostExcludes(host, answers) IN
         IF parsed.err THEN [err |-> "error", Peers |-> peers]
         ELSE IF Len(parsed.excludes) = 0 THEN [err |-> "nil", Peers |-> peers]
         ELSE [err   |-> "nil",
               Peers |-> [i \in DOMAIN peers |->
                            IF Len(peers[i].AllowedIPs) = 0
                            THEN peers[i]
                            ELSE [peers[i] EXCEPT !.AllowedIPs =
                                     subtractPrefixList(peers[i].AllowedIPs, parsed.excludes)]]]

\* ------------------------------------------------------------------ state
VARIABLES
    pc,            \* position of the caller
    base,          \* arguments of the call of subtractPrefix
    remove,
    ret,           \* the slice subtractPrefix returned
    nsplit,        \* calls of splitPrefix during that call
    bases,         \* arguments of the call of subtractPrefixList
    removes,
    out,           \* the slice subtractPrefixList returned
    prevOut,       \* the slice the preceding call returned
    WstunnelHost,  \* config.Interface.WstunnelHost
    Peers,         \* config.Peers
    resolved,      \* what resolveHostname answered during the call
    err            \* the error ApplyWstunnelHostExclusions returned

subVars  == << base, remove, ret, nsplit >>
listVars == << bases, removes, out, prevOut >>
confVars == << WstunnelHost, Peers, resolved, err >>
vars == << pc, subVars, listVars, confVars >>

SubIdle ==
    /\ base = NoPrefix
    /\ remove = NoPrefix
    /\ ret = << >>
    /\ nsplit = 0

ListIdle ==
    /\ bases = << >>
    /\ removes = << >>
    /\ out = << >>
    /\ prevOut = << >>

ConfIdle ==
    /\ WstunnelHost = << >>
    /\ Peers = << >>
    /\ resolved = << >>
    /\ err = "none"

\* ------------------------------------------ one call of subtractPrefix
InitSubtract ==
    /\ pc = "call"
    /\ base \in AllPrefixes(4) \cup AllPrefixes(6)
    /\ remove \in AllPrefixes(4) \cup AllPrefixes(6)
    /\ ret = << >>
    /\ nsplit = 0
    /\ ListIdle
    /\ ConfIdle

CallSubtractPrefix ==
    /\ pc = "call"
    /\ LET run == subtractPrefixRun(base, remove)
       IN  /\ ret' = run.out
           /\ nsplit' = run.splits
    /\ pc' = "returned"
    /\ UNCHANGED << base, remove, listVars, confVars >>

NextSubtract == CallSubtractPrefix

SpecSubtract == InitSubtract /\ [][NextSubtract]_vars

\* ------------------- subtractPrefixList for one base and its exclusions
\* The base is any prefix of the 4-byte family, masked or not, or a masked
\* prefix of the 16-byte family; the exclusions are masked, as
\* parseWstunnelHostExcludes leaves them.
InitList ==
    /\ pc = "start"
    /\ \E b \in AllPrefixes(4) \cup CanonicalPrefixes(6) : bases = << b >>
    /\ removes \in SeqsUpTo(CanonicalPrefixes(4) \cup CanonicalPrefixes(6), MaxRemoves)
    /\ out = << >>
    /\ prevOut = << >>
    /\ SubIdle
    /\ ConfIdle

\* out := subtractPrefixList(bases, removes)
CallSubtractPrefixList ==
    /\ pc = "start"
    /\ out' = subtractPrefixList(bases, removes)
    /\ pc' = "once"
    /\ UNCHANGED << bases, removes, prevOut, subVars, confVars >>

\* the list returned is passed again with the same exclusions:
\* out := subtractPrefixList(out, removes)
CallAgain ==
    /\ pc = "once"
    /\ prevOut' = out
    /\ bases' = out
    /\ out' = subtractPrefixList(out, removes)
    /\ pc' = "twice"
    /\ UNCHANGED << removes, subVars, confVars >>

Bijections(n) == { f \in [1 .. n -> 1 .. n] : \A i, j \in 1 .. n : f[i] = f[j] => i = j }

\* the same base is passed with the exclusions in another order
CallReordered ==
    /\ pc = "once"
    /\ \E f \in Bijections(Len(removes)) :
          /\ removes' = [i \in DOMAIN removes |-> removes[f[i]]]
          /\ removes' # removes
          /\ out' = subtractPrefixList(bases, removes')
    /\ prevOut' = out
    /\ pc' = "reordered"
    /\ UNCHANGED << bases, subVars, confVars >>

NextList == CallSubtractPrefixList \/ CallAgain \/ CallReordered

SpecList == InitList /\ [][NextList]_vars

\* ------------------------- subtractPrefixList for several bases at once
InitBases ==
    /\ pc = "start"
    /\ bases \in SeqsUpTo(CanonicalPrefixes(6), MaxOperands)
    /\ removes \in SeqsUpTo(CanonicalPrefixes(6), MaxOperands - Len(bases))
    /\ out = << >>
    /\ prevOut = << >>
    /\ SubIdle
    /\ ConfIdle

NextBases == CallSubtractPrefixList

SpecBases == InitBases /\ [][NextBases]_vars

\* ---------------------------------- config.ApplyWstunnelHostExclusions()
\* AllowedIPs of a loaded peer: none or one prefix
PeerValues ==
    { [AllowedIPs |-> << >>] }
        \cup { [AllowedIPs |-> << p >>] : p \in CanonicalPrefixes(4) }

Init ==
    /\ pc = "loaded"
    /\ WstunnelHost \in SeqsUpTo(Tokens, MaxTokens) \ { << >> }
    /\ Peers \in SeqsUpTo(PeerValues, MaxPeers)
    /\ resolved = << >>
    /\ err = "none"
    /\ SubIdle
    /\ ListIdle

CallApply ==
    /\ pc = "loaded"
    /\ \E answers \in ResolverAnswers(WstunnelHost) :
          LET r == ApplyWstunnelHostExclusions(WstunnelHost, Peers, answers)
          IN  /\ resolved' = answers
              /\ err' = r.err
              /\ Peers' = r.Peers
    /\ pc' = "applied"
    /\ UNCHANGED << WstunnelHost, subVars, listVars >>

Next == CallApply

Spec == Init /\ [][Next]_vars

\* ------------------------------------------------------------------ claims
\* C1 (coverage): the union of the address sets of the prefixes returned by
\* subtractPrefix(base, remove) is exactly addresses(base) \ addresses(remove).
C1_Coverage ==
    pc = "returned" =>
        AddressesOfList(ret) = Addresses(base) \ Addresses(remove)

C1_Witness ==
    /\ pc = "returned"
    /\ base = Masked(base)
    /\ remove = Masked(remove)
    /\ StrictlyInside(remove, base)
    /\ remove.bits >= base.bits + 2
    /\ Len(ret) >= 2
    /\ AddressesOfList(ret) # {}

\* C2 (disjointness): no two distinct entries of the list returned by
\* subtractPrefix(base, remove) overlap, and no entry appears twice.
C2_Disjoint ==
    pc = "returned" =>
        \A i, j \in DOMAIN ret :
            i # j => /\ ~Overlaps(ret[i], ret[j])
                     /\ Addresses(ret[i]) \cap Addresses(ret[j]) = {}

C2_Witness ==
    /\ pc = "returned"
    /\ base = Masked(base)
    /\ remove = Masked(remove)
    /\ StrictlyInside(remove, base)
    /\ Len(ret) >= 2
    /\ ret[1] # ret[2]

\* C7 (hole punch): when remove lies strictly inside base, subtractPrefix
\* returns remove.bits - base.bits fragments, exactly one of each prefix
\* length base.bits+1 .. remove.bits.
C7_HolePunch ==
    (pc = "returned" /\ StrictlyInside(remove, base)) =>
        /\ Len(ret) = remove.bits - base.bits
        /\ { ret[i].bits : i \in DOMAIN ret } = (base.bits + 1) .. remove.bits
        /\ \A l \in (base.bits + 1) .. remove.bits :
              Cardinality({ i \in DOMAIN ret : ret[i].bits = l }) = 1

C7_Witness ==
    /\ pc = "returned"
    /\ base = Masked(base)
    /\ remove = Masked(remove)
    /\ StrictlyInside(remove, base)
    /\ remove.bits = maxPrefixBits(remove)
    /\ remove.bits - base.bits >= 2
    /\ remove.addr # base.addr
    /\ Len(ret) = remove.bits - base.bits

\* C8 as stated (split bound): a call subtractPrefix(base, remove) makes at
\* most base.bits calls of splitPrefix.
C8_SplitsAtMostBaseLength ==
    pc = "returned" => nsplit <= base.bits

\* C8 as amended: the number of splits is remove.bits - base.bits when remove
\* lies strictly inside base and 0 otherwise, hence at most width - base.bits;
\* every split contributes exactly one retained sibling to the result.
C8_SplitBound ==
    pc = "returned" =>
        /\ nsplit = (IF StrictlyInside(remove, base) THEN remove.bits - base.bits ELSE 0)
        /\ nsplit <= maxPrefixBits(base) - base.bits
        /\ (Overlaps(Masked(base), Masked(remove)) => Len(ret) = nsplit)
        /\ (~Overlaps(Masked(base), Masked(remove)) => ret = << Masked(base) >>)

C8_Witness ==
    /\ pc = "returned"
    /\ StrictlyInside(remove, base)
    /\ nsplit > base.bits
    /\ nsplit >= 2
    /\ Len(ret) = nsplit

\* C3 as stated (list-level non-overlap): no two entries of the list returned
\* by subtractPrefixList(bases, removes) overlap, whatever the bases.
C3_NoOverlapAnyBases ==
    pc = "once" => PairwiseDisjoint(out)

\* C3 as amended: when no two entries of bases overlap, no two entries of the
\* list returned by subtractPrefixList(bases, removes) overlap.
C3_NoOverlapDisjointBases ==
    (pc = "once" /\ PairwiseDisjoint(bases)) => PairwiseDisjoint(out)

C3_Witness ==
    /\ pc = "once"
    /\ Len(bases) >= 2
    /\ PairwiseDisjoint(bases)
    /\ \E j \in DOMAIN removes : StrictlyInside(removes[j], bases[1])
    /\ Len(out) >= 2

\* C4 (idempotence): subtractPrefixList(subtractPrefixList(bases, removes),
\* removes) is the same sequence as subtractPrefixList(bases, removes).
C4_Idempotent ==
    pc = "twice" => out = prevOut

C4_Witness ==
    /\ pc = "twice"
    /\ Len(removes) >= 2
    /\ removes[1] # removes[2]
    /\ Len(bases) >= 2
    /\ \A j \in DOMAIN removes : removes[j].fam = bases[1].fam

\* C5 (family isolation): when every exclusion has a family other than that of
\* the base b, subtractPrefixList(<<b>>, removes) is exactly <<Masked(b)>>.
C5_FamilyIsolation ==
    (/\ pc \in {"once", "reordered"}
     /\ \A j \in DOMAIN removes : removes[j].fam # bases[1].fam)
        => out = << Masked(bases[1]) >>

C5_Witness ==
    /\ pc = "once"
    /\ removes # << >>
    /\ \A j \in DOMAIN removes : removes[j].fam # bases[1].fam
    /\ \E j \in DOMAIN removes :
          /\ removes[j].addr = bases[1].addr
          /\ removes[j].bits = bases[1].bits
    /\ out = bases

\* C9 (order independence): folding the same exclusions in another order
\* yields the same fragments for the base.
C9_OrderIndependent ==
    pc = "reordered" =>
        /\ Range(out) = Range(prevOut)
        /\ Len(out) = Len(prevOut)

C9_Witness ==
    /\ pc = "reordered"
    /\ Len(removes) >= 2
    /\ \A j \in DOMAIN removes : StrictlyInside(removes[j], bases[1])
    /\ Len(out) >= 2

\* C10 (no sibling pair): the fragments of one base, after any list of
\* exclusions is folded, never hold both halves of a split.
C10_NoSiblings ==
    pc \in {"once", "reordered"} =>
        \A i, j \in DOMAIN out : ~Siblings(out[i], out[j])

C10_Witness ==
    /\ pc = "once"
    /\ Len(removes) >= 2
    /\ \A j \in DOMAIN removes : StrictlyInside(removes[j], bases[1])
    /\ ~Overlaps(removes[1], removes[2])
    /\ Len(out) >= 2

\* an entry of WSTUNNEL_HOST the parsers reject, given the resolver's answer
TokenRejected(tok, ans) ==
    \/ tok.kind \in {"empty", "badcidr"}
    \/ tok.kind = "host" /\ ans.kind \in {"fail", "text"}

\* C6 (all or nothing): when an entry of a non-blank WSTUNNEL_HOST is
\* rejected, earlier entries valid or not, ApplyWstunnelHostExclusions returns
\* an error and leaves every peer's AllowedIPs as it was.
C6_AllOrNothing ==
    [][ (/\ pc = "loaded"
         /\ pc' = "applied"
         /\ ~Blank(WstunnelHost)
         /\ \E i \in DOMAIN WstunnelHost : TokenRejected(WstunnelHost[i], resolved'[i]))
            => (err' = "error" /\ Peers' = Peers) ]_vars

C6_Witness ==
    /\ pc = "applied"
    /\ err = "error"
    /\ Len(WstunnelHost) >= 2
    /\ WstunnelHost[1].kind = "cidr"
    /\ TokenRejected(WstunnelHost[2], resolved[2])
    /\ \E i \in DOMAIN Peers :
          /\ Len(Peers[i].AllowedIPs) > 0
          /\ StrictlyInside(WstunnelHost[1].prefix, Peers[i].AllowedIPs[1])
====
